---------------------------- MODULE Spec2Model ----------------------------
(***************************************************************************)
(* A model of sitewinder, a static site generator (src/src/sitegen).       *)
(*                                                                         *)
(* Text is modelled as a sequence of atoms.  An atom is either a character *)
(* the code's parsing looks at ("-", ":", ",", " ", "\n", "/") or an       *)
(* opaque piece of text no pattern of the code looks into (a word such as  *)
(* "title", a date such as "2024-01-01", a whole placeholder such as       *)
(* "{ title }").  An Option<T> is a sequence of length 0 (None) or 1       *)
(* (Some).  A NaiveDate is the number of its rank among the dates used.    *)
(***************************************************************************)
EXTENDS Integers, Sequences, FiniteSets, TLC

VARIABLES
    contents,            \* Page.contents of the page being worked on
    metadata,            \* Page.metadata of the page being worked on
    reader,              \* process_metadata: the unread rest of the BufReader
    reading_metadata,    \* process_metadata: the header-mode flag
    processed_contents,  \* process_metadata: the body collected so far
    output_path,         \* Page.output_path of the page being worked on
    prev,                \* generate: the metadata of the previous page, if any
    next,                \* generate: the metadata of the next page, if any
    tags,                \* SiteGen.tags: the tag index
    files,               \* the files under the site root that templates name
    template,            \* history: the text the page's contents started as
    walk,                \* read_templates: the directory entries not yet visited
    site,                \* history: the directory entries in the order of the walk
    groups,              \* SiteGen.groups: the pages under their group key
    tag_template,        \* SiteGen.tag_template
    tag_template_path,   \* SiteGen.tag_template_path
    pending,             \* generate_pages: the group keys not yet iterated
    rendered,            \* history: the output paths generate has completed on
    pc                   \* the control point of the operation being modelled

vars == <<contents, metadata, reader, reading_metadata, processed_contents,
          output_path, prev, next, tags, files, template, walk, site, groups,
          tag_template, tag_template_path, pending, rendered, pc>>

\* The state of a run of SiteGen apart from the tag index.
siteVars ==
    <<walk, site, groups, tag_template, tag_template_path, pending, rendered>>

\* The state of the single page the operations of Page are followed on.
pageVars == <<contents, metadata, reader, reading_metadata,
              processed_contents, output_path, prev, next, template>>

\* The page generate works on, its arguments and the tag index.
genVars == <<output_path, prev, next, tags>>

\* The locals of process_metadata.
metaVars == <<reader, reading_metadata, processed_contents>>

--------------------------------------------------------------------------
(* Bounds of the model *)

\* The number of lines of a raw template handed to process_metadata.
MaxLines == 4

\* The number of distinct calendar dates pages are dated with.
NumDates == 3

\* The number of files under the site root that include directives name.
NumFiles == 3

\* The number of page templates of a site whose pages are grouped and dated.
MaxPages == 3

\* The number of page templates of a site whose pages are tagged.
MaxTagged == 2

\* The longest text process_includes is followed to: a pass that would make
\* the text longer is not taken (an include cycle grows the text for ever).
\* Every expansion of an acyclic include graph of the model is shorter.
MaxText == 2 ^ (NumFiles + 1)

--------------------------------------------------------------------------
(* Text helpers *)

NL == "\n"

None == <<>>

Some(v) == <<v>>

IsSome(o) == Len(o) = 1

Unwrap(o) == o[1]

Drop(s, n) == SubSeq(s, n + 1, Len(s))

Take(s, n) == SubSeq(s, 1, n)

\* str::starts_with
StartsWith(s, p) == Len(s) >= Len(p) /\ Take(s, Len(p)) = p

\* The index of the first occurrence of atom a in s, 0 when there is none.
IndexOf(s, a) ==
    IF \E i \in 1..Len(s) : s[i] = a
    THEN CHOOSE i \in 1..Len(s) : s[i] = a /\ \A j \in 1..(i - 1) : s[j] # a
    ELSE 0

IsWhite(a) == a \in {" ", NL}

\* str::trim: the text without its leading and trailing white space.
Trim(s) ==
    LET keep == {i \in 1..Len(s) : ~IsWhite(s[i])}
    IN  IF keep = {} THEN <<>>
        ELSE LET lo == CHOOSE i \in keep : \A j \in keep : i <= j
                 hi == CHOOSE i \in keep : \A j \in keep : j <= i
             IN  SubSeq(s, lo, hi)

\* str::split on a separator atom: the pieces between the separators.
RECURSIVE Split(_, _)
Split(s, sep) ==
    LET i == IndexOf(s, sep)
    IN  IF i = 0 THEN <<s>>
        ELSE <<Take(s, i - 1)>> \o Split(Drop(s, i), sep)

\* The largest number of a set of naturals, 0 when the set is empty.
SetMax(S) == IF S = {} THEN 0 ELSE CHOOSE m \in S : \A n \in S : n <= m

\* The concatenation of a sequence of texts.
RECURSIVE Concat(_)
Concat(ss) == IF ss = <<>> THEN <<>> ELSE Head(ss) \o Concat(Tail(ss))

\* SiteGen::root: the absolute path of the site root, as path components.
RootPath == <<"site">>

\* No run of SiteGen is under way: the state of a specification that follows
\* one operation of one page.
NoSite ==
    /\ walk = <<>>
    /\ site = <<>>
    /\ groups = <<>>
    /\ tag_template = None
    /\ tag_template_path = None
    /\ pending = {}
    /\ rendered = <<>>

--------------------------------------------------------------------------
(* Dates *)

\* The calendar dates of the model in ascending order, as written in a header.
DateNames == <<"2024-01-01", "2024-02-01", "2024-03-01", "2024-04-01">>

Dates == 1..NumDates

\* NaiveDate::parse_from_str(val, "%Y-%m-%d"): Some(date), None for a text that
\* is no date.
ParseDate(val) ==
    IF \E d \in Dates : val = <<DateNames[d]>>
    THEN Some(CHOOSE d \in Dates : val = <<DateNames[d]>>)
    ELSE None

\* date.format("%Y-%m-%d")
FormatDate(d) == <<DateNames[d]>>

--------------------------------------------------------------------------
(* Metadata (metadata.rs) *)

\* Metadata::new
NewMetadata(path) ==
    [title |-> <<>>, group |-> None, tags |-> None, date |-> None,
     author |-> <<>>, path |-> path]

--------------------------------------------------------------------------
(* Page::process_metadata (page.rs) *)

\* BufRead::read_line: the unread text up to and including the next newline,
\* or all of it when no newline is left; empty at the end of input.
ReadLine(r) ==
    LET i == IndexOf(r, NL) IN IF i = 0 THEN r ELSE Take(r, i)

\* The test that flips header mode (page.rs:90).
TogglesHeader(line) == StartsWith(line, <<"-", "-">>)

\* The match on the key of a header line (page.rs:98-110).  A date that does
\* not parse makes the unwrap panic: the result is then None.
SetKey(md, key, val) ==
    CASE key = <<"title">>  -> Some([md EXCEPT !.title = val])
      [] key = <<"group">>  -> Some([md EXCEPT !.group = Some(val)])
      [] key = <<"tags">>   ->
            LET parts == Split(val, ",")
            IN  Some([md EXCEPT !.tags =
                        Some([i \in 1..Len(parts) |-> Trim(parts[i])])])
      [] key = <<"date">>   ->
            IF IsSome(ParseDate(val))
            THEN Some([md EXCEPT !.date = ParseDate(val)])
            ELSE None
      [] key = <<"author">> -> Some([md EXCEPT !.author = val])
      [] OTHER              -> Some(md)

\* One iteration of the while loop (page.rs:87-113) on the state
\* s = [reader, reading_metadata, processed_contents, metadata, pc].
MetaLoopStep(s) ==
    LET line == ReadLine(s.reader)
        rest == Drop(s.reader, Len(line))
        t    == [s EXCEPT !.reader = rest]
        c    == IndexOf(line, ":")
    IN  IF line = <<NL>> \/ line = <<"\r", NL>> THEN t
        ELSE IF TogglesHeader(line)
        THEN [t EXCEPT !.reading_metadata = ~s.reading_metadata]
        ELSE IF ~s.reading_metadata
        THEN [t EXCEPT !.processed_contents = s.processed_contents \o line,
                       !.pc = "rest"]
        ELSE IF c # 0
        THEN LET md == SetKey(s.metadata, Trim(Take(line, c - 1)),
                              Trim(Drop(line, c)))
             IN  IF IsSome(md) THEN [t EXCEPT !.metadata = Unwrap(md)]
                 ELSE [t EXCEPT !.pc = "panic"]
        ELSE t

\* After the loop (page.rs:117-119): the unread rest joins the body.
MetaRestStep(s) ==
    [s EXCEPT !.processed_contents = s.processed_contents \o s.reader,
              !.reader = <<>>, !.pc = "done"]

MetaStep(s) ==
    IF s.pc = "meta" THEN MetaLoopStep(s)
    ELSE IF s.pc = "rest" THEN MetaRestStep(s)
    ELSE s

\* The state process_metadata starts in on a page with the given raw text.
MetaStart(raw, md) ==
    [reader |-> raw, reading_metadata |-> FALSE, processed_contents |-> <<>>,
     metadata |-> md, pc |-> "meta"]

MetaNow ==
    [reader |-> reader, reading_metadata |-> reading_metadata,
     processed_contents |-> processed_contents, metadata |-> metadata,
     pc |-> pc]

\* The shapes of line the raw templates of the model are made of.
LineShapes ==
    { <<NL>>,
      <<"-", "-", NL>>,
      <<"-", "-", "-", NL>>,
      <<"-", "-", "x", NL>>,
      <<"title", ":", " ", "T", NL>>,
      <<"date", ":", "x", NL>>,
      <<"x", NL>> }

\* What a raw template may end with after its last newline.
LineTails == { <<>>, <<"x">>, <<"-", "-">> }

RECURSIVE LineSeqs(_)
LineSeqs(n) ==
    IF n = 0 THEN {<<>>}
    ELSE LET shorter == LineSeqs(n - 1)
         IN  shorter \cup {l \o t : l \in LineShapes, t \in shorter}

MetaInputs == {t \o e : t \in LineSeqs(MaxLines), e \in LineTails}

InitMeta ==
    /\ contents \in MetaInputs
    /\ metadata = NewMetadata(<<"/", "p.html">>)
    /\ reader = contents
    /\ reading_metadata = FALSE
    /\ processed_contents = <<>>
    /\ output_path = RootPath \o <<"p.html">>
    /\ prev = None
    /\ next = None
    /\ tags = <<>>
    /\ files = <<>>
    /\ template = contents
    /\ NoSite
    /\ pc = "meta"

\* One iteration of the header loop.
MetaLoop ==
    /\ pc = "meta"
    /\ LET s == MetaLoopStep(MetaNow)
       IN  /\ reader' = s.reader
           /\ reading_metadata' = s.reading_metadata
           /\ processed_contents' = s.processed_contents
           /\ metadata' = s.metadata
           /\ pc' = s.pc
    /\ UNCHANGED <<contents, genVars, files, template, siteVars>>

\* The rest of the input becomes the body and the page's contents.
MetaRest ==
    /\ pc = "rest"
    /\ LET s == MetaRestStep(MetaNow)
       IN  /\ reader' = s.reader
           /\ processed_contents' = s.processed_contents
           /\ contents' = s.processed_contents
           /\ pc' = s.pc
    /\ UNCHANGED <<metadata, reading_metadata, genVars, files, template, siteVars>>

NextMeta == MetaLoop \/ MetaRest

SpecMeta == InitMeta /\ [][NextMeta]_vars

--------------------------------------------------------------------------
(* Claims about process_metadata, checked under SpecMeta *)

\* A line that consists solely of two or more dashes (and its line end).
IsDashLine(line) ==
    LET body == IF line # <<>> /\ line[Len(line)] = NL
                THEN Take(line, Len(line) - 1) ELSE line
    IN  Len(body) >= 2 /\ \A i \in 1..Len(body) : body[i] = "-"

\* The body the parser is said to return for a raw text: header mode flips at
\* each line of dashes, blank lines are skipped, and the body is the text from
\* the first other line met outside header mode to the end of input.
RECURSIVE ClaimedBody(_, _)
ClaimedBody(rest, inHeader) ==
    LET line == ReadLine(rest)
    IN  IF rest = <<>> THEN <<>>
        ELSE IF line = <<NL>> THEN ClaimedBody(Drop(rest, Len(line)), inHeader)
        ELSE IF IsDashLine(line)
        THEN ClaimedBody(Drop(rest, Len(line)), ~inHeader)
        ELSE IF ~inHeader THEN rest
        ELSE ClaimedBody(Drop(rest, Len(line)), inHeader)

\* C3: process_metadata terminates on every raw template text: no iteration
\* of its header loop leaves the whole state of the loop as it found it (the
\* loop is deterministic, so such an iteration repeats for ever).
C3_LoopAlwaysProgresses ==
    pc = "meta" => MetaLoopStep(MetaNow) # MetaNow

\* C4: header mode is flipped only by a line that consists solely of two or
\* more dashes.
C4_OnlyDashLinesToggle ==
    [][reading_metadata' # reading_metadata => IsDashLine(ReadLine(reader))]_vars

\* C5: when process_metadata returns, the body is the text from the first
\* non-blank, non-delimiter line met outside header mode to the end of the
\* input, unmodified.
C5_BodyFromFirstBodyLine ==
    [][pc' = "done" => contents' = ClaimedBody(contents, FALSE)]_vars

--------------------------------------------------------------------------
(* Page::process_includes (page.rs) *)

\* The text of a sequence of atoms as one atom.
RECURSIVE JoinStr(_)
JoinStr(p) == IF p = <<>> THEN "" ELSE Head(p) \o JoinStr(Tail(p))

FileNames == <<"a.html", "b.html", "c.html", "d.html">>

\* The place of a file under the site root: its path from the root.
FileKeys == {<<FileNames[j]>> : j \in 1..NumFiles}

\* The paths a directive may name: root-relative, with or without the
\* leading slash.
IncludePaths == FileKeys \cup {<<"/">> \o k : k \in FileKeys}

\* The directive { include "<path>" } as it stands in a text.
Inc(path) == "{ include \"" \o JoinStr(path) \o "\" }"

\* The include directives of the model's texts.
IncludeAtoms == {Inc(p) : p \in IncludePaths}

\* RE_INCLUDE (regexes.rs:13): whether the atom is an include directive.
IsInclude(a) == a \in IncludeAtoms

IncludePathTable ==
    [a \in IncludeAtoms |-> CHOOSE p \in IncludePaths : Inc(p) = a]

\* The <path> capture of an include directive.
IncludePathOf(a) == IncludePathTable[a]

\* Page::get_local_include_path: the file a path names, the leading slash
\* stripped and the rest joined to the root.
get_local_include_path(path) ==
    IF StartsWith(path, <<"/">>) THEN Drop(path, 1) ELSE path

\* std::fs::read_to_string: Some(text), None when the file cannot be read.
ReadToString(fs, key) == IF key \in DOMAIN fs THEN fs[key] ELSE None

\* One RE_INCLUDE.replace_all pass (page.rs:235-238): every directive of the
\* text replaced by the text of its file.  Reading a missing file makes the
\* unwrap panic: the result is then None.
PassIncludes(text, fs) ==
    LET dirs == {i \in 1..Len(text) : IsInclude(text[i])}
        fileOf(i) == ReadToString(fs, get_local_include_path(IncludePathOf(text[i])))
    IN  IF \E i \in dirs : ~IsSome(fileOf(i)) THEN None
        ELSE Some(Concat([i \in 1..Len(text) |->
                            IF i \in dirs THEN Unwrap(fileOf(i))
                            ELSE <<text[i]>>]))

\* The loop as a slip would make it: one pass and no scan of the new text.
IncStepOnePass(s, fs, after) ==
    LET new == PassIncludes(s.contents, fs)
    IN  IF ~IsSome(new) THEN [s EXCEPT !.pc = "panic"]
        ELSE [s EXCEPT !.contents = Unwrap(new), !.pc = after]

\* The loop as it would be with a guard against cycles: it also ends when a
\* pass brings back a directive that stood in the text before the pass.
IncStepCycleGuard(s, fs, after) ==
    LET new == PassIncludes(s.contents, fs)
        dirs(text) == {text[i] : i \in {j \in 1..Len(text) : IsInclude(text[j])}}
    IN  IF ~IsSome(new) THEN [s EXCEPT !.pc = "panic"]
        ELSE IF Unwrap(new) = s.contents
                \/ dirs(Unwrap(new)) \cap dirs(s.contents) # {}
             THEN [s EXCEPT !.pc = after]
        ELSE [s EXCEPT !.contents = Unwrap(new)]

\* The loop as it would be if a file that cannot be read counted as a pass
\* without change: the loop ends and the directive stays.
IncStepMissingIsNoChange(s, fs, after) ==
    LET new == PassIncludes(s.contents, fs)
    IN  IF ~IsSome(new) \/ Unwrap(new) = s.contents THEN [s EXCEPT !.pc = after]
        ELSE [s EXCEPT !.contents = Unwrap(new)]

\* One iteration of the loop of process_includes (page.rs:234-245) on the
\* state s = [contents, pc]; `after` is the control point that follows the
\* loop.
IncStep(s, fs, after) ==
    LET new == PassIncludes(s.contents, fs)
    IN  IF ~IsSome(new) THEN [s EXCEPT !.pc = "panic"]
        ELSE IF Unwrap(new) = s.contents THEN [s EXCEPT !.pc = after]
        ELSE [s EXCEPT !.contents = Unwrap(new)]

\* The texts a file of the model may hold: plain text, or text with
\* directives naming any file (itself included), with or without the slash.
FileTexts ==
    {<<"x">>}
    \cup {<<Inc(k)>> : k \in FileKeys}
    \cup {<<"x", Inc(<<"/">> \o k), Inc(k)>> : k \in FileKeys}

\* The file systems of the model: each file is missing or holds a text.
FileSystems == [FileKeys -> {None} \cup {Some(t) : t \in FileTexts}]

\* The page bodies process_includes is run on.
IncludeBodies ==
    { <<"h", Inc(<<FileNames[1]>>), "f">>,
      <<Inc(<<"/", FileNames[1]>>), Inc(<<FileNames[2]>>)>> }

InitInc ==
    /\ contents \in IncludeBodies
    /\ files \in FileSystems
    /\ template = contents
    /\ metadata = NewMetadata(<<"/", "p.html">>)
    /\ reader = <<>>
    /\ reading_metadata = FALSE
    /\ processed_contents = <<>>
    /\ output_path = RootPath \o <<"p.html">>
    /\ prev = None
    /\ next = None
    /\ tags = <<>>
    /\ NoSite
    /\ pc = "includes"

\* One pass of the loop of process_includes.
IncludePass ==
    /\ pc = "includes"
    /\ LET s == IncStep([contents |-> contents, pc |-> pc], files, "done")
       IN  /\ Len(s.contents) <= MaxText
           /\ contents' = s.contents
           /\ pc' = s.pc
    /\ UNCHANGED <<metadata, metaVars, genVars, files, template, siteVars>>

NextInc == IncludePass

SpecInc == InitInc /\ [][NextInc]_vars

--------------------------------------------------------------------------
(* Paths and relative links (mod.rs) *)

\* Path::components of a path text: the pieces between the slashes.
Components(text) ==
    LET parts == Split(text, "/")
    IN  SelectSeq([i \in 1..Len(parts) |-> JoinStr(parts[i])],
                  LAMBDA c : c # "")

\* The text of a path of components, written with forward slashes.
RECURSIVE SlashJoin(_)
SlashJoin(comps) ==
    IF comps = <<>> THEN <<>>
    ELSE IF Len(comps) = 1 THEN comps
    ELSE <<Head(comps), "/">> \o SlashJoin(Tail(comps))

\* Page::get_page_path: the output path below the root, with a leading slash.
get_page_path(root, output_path_local) ==
    <<"/">> \o SlashJoin(Drop(output_path_local, Len(root)))

\* Path::parent
Parent(path) == IF path = <<>> THEN <<>> ELSE Take(path, Len(path) - 1)

\* The number of leading components two paths share.
RECURSIVE CommonLen(_, _)
CommonLen(a, b) ==
    IF a = <<>> \/ b = <<>> \/ Head(a) # Head(b) THEN 0
    ELSE 1 + CommonLen(Tail(a), Tail(b))

\* A path from base to target that never goes up: what diff_paths would give
\* if it took the base for an ancestor of the target.
diff_paths_down_only(target, base) == Drop(target, CommonLen(target, base))

\* pathdiff::diff_paths of two absolute paths: up from base to the common
\* ancestor, then down to the target.
diff_paths(target, base) ==
    LET n == CommonLen(target, base)
    IN  [i \in 1..(Len(base) - n) |-> ".."] \o Drop(target, n)

\* utf8_percent_encode(component, FRAGMENT) on an atom of a path.
EncodeAtom(a) ==
    CASE a = "my page.html" -> "my%20page.html"
      [] a = "my tag.html"  -> "my%20tag.html"
      [] OTHER              -> a

\* url_encode_path (mod.rs:280-288): every piece between slashes encoded.
url_encode_path(text) == [i \in 1..Len(text) |-> EncodeAtom(text[i])]

\* make_relative_link (mod.rs:260-277).  A target with no leading slash is a
\* relative path, which diff_paths cannot relate to the absolute directory of
\* the document: the target is encoded as it is.
make_relative_link(target_path, current_doc_path, root_path) ==
    IF StartsWith(target_path, <<"/">>)
    THEN url_encode_path(SlashJoin(
            diff_paths(root_path \o Components(Drop(target_path, 1)),
                       Parent(current_doc_path))))
    ELSE url_encode_path(target_path)

\* The text of a tag as the link patterns read it (regexes.rs:30-35): an
\* opening "<name " (the name and the white space after it), any atoms, an
\* attribute "name=" (the name, the equals sign and the white space around
\* it), a quote of either kind, the URL, a quote of either kind, any atoms,
\* and the closing ">".
Quotes == {"\"", "'"}

\* The attributes whose URLs are rewritten, in the order of the passes
\* (mod.rs:302-401).
LinkAttrs == <<"href=", "src=", "data=", "poster=", "action=", "srcset=">>

\* The tags each pattern looks for its attribute in.
LinkTags(attr) ==
    CASE attr = "href="   -> {"<a ", "<link ", "<area ", "<base "}
      [] attr = "src="    -> {"<img ", "<audio ", "<video ", "<script ",
                              "<source ", "<iframe ", "<embed ", "<track "}
      [] attr = "data="   -> {"<object ", "<embed "}
      [] attr = "poster=" -> {"<video "}
      [] attr = "action=" -> {"<form "}
      [] attr = "srcset=" -> {"<img ", "<source "}

\* The first place after i of an atom of the set S, 0 when there is none.
FirstAfter(text, i, S) ==
    LET hits == {j \in (i + 1)..Len(text) : text[j] \in S}
    IN  IF hits = {} THEN 0 ELSE CHOOSE j \in hits : \A h \in hits : j <= h

\* The places of the attribute in the tag that opens at the head of the
\* text where the rest of the pattern matches: no ">" before the attribute, a
\* quote after it, a URL of at least one atom none of which is a quote, a
\* quote, and a ">" somewhere after.
AttrPlaces(text, attr) ==
    {k \in 2..(Len(text) - 1) :
        /\ text[k] = attr
        /\ \A h \in 2..(k - 1) : text[h] # ">"
        /\ text[k + 1] \in Quotes
        /\ LET q == FirstAfter(text, k + 1, Quotes)
           IN  q >= k + 3 /\ FirstAfter(text, q, {">"}) # 0}

\* should_rewrite (mod.rs:295-300): the URL is local.
should_rewrite(url) ==
    /\ ~StartsWith(url, <<"/", "/">>)
    /\ url = <<>> \/ url[1] \notin {"http://", "https://", "#", "mailto:",
                                    "tel:", "data:", "javascript:"}

\* str::split_whitespace: the runs of atoms between the white space.
RECURSIVE SplitWhitespace(_)
SplitWhitespace(s) ==
    IF s = <<>> THEN <<>>
    ELSE IF IsWhite(Head(s)) THEN SplitWhitespace(Tail(s))
    ELSE LET w == FirstAfter(s, 0, {" ", NL})
             n == IF w = 0 THEN Len(s) ELSE w - 1
         IN  <<Take(s, n)>> \o SplitWhitespace(Drop(s, n))

\* The pieces joined with a separator between them.
RECURSIVE JoinWith(_, _)
JoinWith(pieces, sep) ==
    IF pieces = <<>> THEN <<>>
    ELSE IF Len(pieces) = 1 THEN Head(pieces)
    ELSE Head(pieces) \o sep \o JoinWith(Tail(pieces), sep)

\* One entry of a srcset (mod.rs:380-396): its URL is made relative when it
\* is local, and what follows it is put after one space each.
SrcsetEntry(entry, current_doc_path, root_path) ==
    LET parts == SplitWhitespace(entry)
    IN  IF parts # <<>> /\ should_rewrite(Head(parts))
        THEN JoinWith(<<make_relative_link(Head(parts), current_doc_path,
                                           root_path)>> \o Tail(parts),
                      <<" ">>)
        ELSE entry

\* What a pass puts in the place of the URL: the relative link of a local
\* URL (mod.rs:308-313), and for a srcset the entries between the commas,
\* each rewritten, joined with a comma and a space (mod.rs:378-398).
RewriteUrl(url, attr, current_doc_path, root_path) ==
    IF attr = "srcset="
    THEN LET entries == Split(url, ",")
         IN  JoinWith([n \in 1..Len(entries) |->
                          SrcsetEntry(entries[n], current_doc_path, root_path)],
                      <<",", " ">>)
    ELSE IF should_rewrite(url)
    THEN make_relative_link(url, current_doc_path, root_path)
    ELSE url

\* One replace_all of a link pattern: the matches are found from left to
\* right; in a tag the pattern takes the last place of the attribute where it
\* matches, the atoms before the attribute being matched greedily.
RECURSIVE RewritePass(_, _, _, _)
RewritePass(text, attr, current_doc_path, root_path) ==
    IF text = <<>> THEN <<>>
    ELSE IF Head(text) \in LinkTags(attr) /\ AttrPlaces(text, attr) # {}
    THEN LET k == SetMax(AttrPlaces(text, attr))
             q == FirstAfter(text, k + 1, Quotes)
             g == FirstAfter(text, q, {">"})
         IN  Take(text, k + 1)
             \o RewriteUrl(SubSeq(text, k + 2, q - 1), attr, current_doc_path,
                           root_path)
             \o SubSeq(text, q, g)
             \o RewritePass(Drop(text, g), attr, current_doc_path, root_path)
    ELSE <<Head(text)>>
         \o RewritePass(Tail(text), attr, current_doc_path, root_path)

\* The passes from the n-th on, one after the other.
RECURSIVE RewritePasses(_, _, _, _)
RewritePasses(text, n, current_doc_path, root_path) ==
    IF n > Len(LinkAttrs) THEN text
    ELSE RewritePasses(RewritePass(text, LinkAttrs[n], current_doc_path,
                                   root_path),
                       n + 1, current_doc_path, root_path)

\* rewrite_local_links (mod.rs:291-404): the URL of every link attribute is
\* made relative to the document when it is local.
rewrite_local_links(html, current_doc_path, root_path) ==
    RewritePasses(html, 1, current_doc_path, root_path)

\* The opening of an <a> tag up to its URL, and the end of a tag from the
\* closing quote on, as the templates of the model write them.
AHref == <<"<a ", "href=", "\"">>

TagEnd == <<"\"", ">">>

--------------------------------------------------------------------------
(* Page::generate (page.rs) *)

\* The run's current year (SiteGen::current_year).
CurrentYear == <<"2026">>

\* Regex::replace of a single-token pattern: the first match only.
Replace(text, tok, repl) ==
    LET i == IndexOf(text, tok)
    IN  IF i = 0 THEN text
        ELSE Take(text, i - 1) \o repl \o Drop(text, i)

\* replace_all as a slip would make it: replace called in its place.
ReplaceAllFirstOnly(text, tok, repl) == Replace(text, tok, repl)

\* Regex::replace_all of a single-token pattern.
ReplaceAll(text, tok, repl) ==
    Concat([i \in 1..Len(text) |-> IF text[i] = tok THEN repl
                                   ELSE <<text[i]>>])

\* The directive { group "<path>" } as it stands in a text.
Grp(path) == "{ group \"" \o JoinStr(path) \o "\" }"

GroupAtoms == {Grp(p) : p \in IncludePaths}

GroupPathTable == [a \in GroupAtoms |-> CHOOSE p \in IncludePaths : Grp(p) = a]

\* The group step (page.rs:149-161): every { group "<path>" } becomes the
\* file's text when the page has a group, and nothing when it has none.
\* Reading a missing file makes the unwrap panic: the result is then None.
GroupStep(text, md, fs) ==
    LET dirs == {i \in 1..Len(text) : text[i] \in GroupAtoms}
        fileOf(i) ==
            ReadToString(fs, get_local_include_path(GroupPathTable[text[i]]))
    IN  IF ~IsSome(md.group)
        THEN Some(Concat([i \in 1..Len(text) |->
                            IF i \in dirs THEN <<>> ELSE <<text[i]>>]))
        ELSE IF \E i \in dirs : ~IsSome(fileOf(i)) THEN None
        ELSE Some(Concat([i \in 1..Len(text) |->
                            IF i \in dirs THEN Unwrap(fileOf(i))
                            ELSE <<text[i]>>]))

\* The title and path shown for a neighbour (page.rs:164-175, 180-191).
NeighbourTitle(nb) == IF IsSome(nb) THEN Unwrap(nb).title ELSE <<>>

\* The path of a neighbour without the guard against an empty link: nothing
\* for an absent neighbour.
NeighbourPathNoGuard(nb, doc) ==
    IF IsSome(nb) THEN make_relative_link(Unwrap(nb).path, doc, RootPath)
    ELSE <<>>

NeighbourPath(nb, doc) ==
    IF IsSome(nb) THEN make_relative_link(Unwrap(nb).path, doc, RootPath)
    ELSE <<"#">>

PrevStep(text, nb, doc) ==
    ReplaceAll(ReplaceAll(text, "{ prev.title }", NeighbourTitle(nb)),
               "{ prev.path }", NeighbourPath(nb, doc))

NextStep(text, nb, doc) ==
    ReplaceAll(ReplaceAll(text, "{ next.title }", NeighbourTitle(nb)),
               "{ next.path }", NeighbourPath(nb, doc))

\* The opening of a { tags '<markup>' } block up to its quote, the opening of
\* a { pages '<markup>' } block, and the closing quote and brace of both.
TagsOpen == "{ tags '"

PagesOpen == "{ pages '"

BlockClose == "' }"

\* The end of the match of a block pattern (RE_TAGS, RE_PAGES) that starts at
\* i: the markup capture is greedy and stays on one line, so the match runs
\* to the last closing quote-and-brace of the line; 0 when there is none.
BlockEnd(text, i) ==
    SetMax({j \in (i + 1)..Len(text) :
                /\ text[j] = BlockClose
                /\ \A k \in (i + 1)..(j - 1) : text[k] # NL})

\* str::repeat
RECURSIVE Repeat(_, _)
Repeat(text, n) == IF n = 0 THEN <<>> ELSE text \o Repeat(text, n - 1)

\* The tag cloud step (page.rs:196-201), RE_TAGS.replace_all: each match,
\* found left to right, is replaced by its markup repeated once per tag of
\* the index.
RECURSIVE TagsStep(_, _)
TagsStep(text, tagIndex) ==
    IF text = <<>> THEN <<>>
    ELSE LET j == BlockEnd(text, 1)
         IN  IF Head(text) = TagsOpen /\ j # 0
             THEN Repeat(SubSeq(text, 2, j - 1), Cardinality(DOMAIN tagIndex))
                  \o TagsStep(Drop(text, j), tagIndex)
             ELSE <<Head(text)>> \o TagsStep(Tail(text), tagIndex)

\* The tag names of the model, in the order of their bytes (the order a
\* BTreeMap<String, _> iterates in); the empty name comes before them all.
TagAtoms == <<"A", "a", "b">>

TagRank(name) ==
    IF name = <<>> THEN 0
    ELSE CHOOSE r \in 1..Len(TagAtoms) : TagAtoms[r] = name[1]

\* The keys of the tag index in the order the BTreeMap iterates in.
SortedTags(tagIndex) ==
    LET D == DOMAIN tagIndex
    IN  [i \in 1..Cardinality(D) |->
            CHOOSE k \in D :
                Cardinality({l \in D : TagRank(l) < TagRank(k)}) = i - 1]

\* The font size of a tag's link (page.rs:209-210).
LinkSizeBase == 11

LinkSizeCap == 7

LinkSize(tagPage) ==
    LinkSizeBase + (IF Len(tagPage.meta) < LinkSizeCap THEN Len(tagPage.meta)
                    ELSE LinkSizeCap)

\* One iteration of the loop over the tags (page.rs:205-214): the first
\* { tag.page.link }, { tag.page.link_size } and { tag.page.title } left in
\* the text receive the values of the tag.
TagValues(text, name, tagPage, doc) ==
    Replace(
        Replace(
            Replace(text, "{ tag.page.link }",
                    make_relative_link(tagPage.path, doc, RootPath)),
            "{ tag.page.link_size }", <<ToString(LinkSize(tagPage))>>),
        "{ tag.page.title }", name)

\* The loop over the tags (page.rs:205-214), in the order of the index.
RECURSIVE TagPagesStep(_, _, _, _)
TagPagesStep(text, names, tagIndex, doc) ==
    IF names = <<>> THEN text
    ELSE TagPagesStep(TagValues(text, Head(names), tagIndex[Head(names)], doc),
                      Tail(names), tagIndex, doc)

\* The text { date } is replaced by (page.rs:138-139).
DateString(md) == IF IsSome(md.date) THEN FormatDate(Unwrap(md.date)) ELSE <<>>

\* The steps of generate in the order they run, and the step after each.
\* The order as it would be with the links rewritten before the tag cloud
\* is resolved.
GenStepsLinksBeforeTags ==
    <<"includes", "title", "date", "author", "current_year", "group", "prev",
      "next", "links", "tags", "tag_pages", "done">>

\* The order as it would be with the group files read after the tag cloud
\* is resolved.
GenStepsGroupAfterTags ==
    <<"includes", "title", "date", "author", "current_year", "prev", "next",
      "tags", "tag_pages", "group", "links", "done">>

GenSteps ==
    <<"includes", "title", "date", "author", "current_year", "group", "prev",
      "next", "tags", "tag_pages", "links", "done">>

StepAfter(step) ==
    GenSteps[1 + CHOOSE i \in 1..(Len(GenSteps) - 1) : GenSteps[i] = step]

\* One step of Page::generate (page.rs:128-218) on the state
\* s = [contents, pc] of the page c = [metadata, output_path], given its
\* neighbours, the tag index and the files under the root.  The include step
\* is one pass of the loop of process_includes.
GenStep(s, c, prv, nxt, tagIndex, fs) ==
    LET to(text) == [contents |-> text, pc |-> StepAfter(s.pc)]
        md == c.metadata
        doc == c.output_path
    IN  CASE s.pc = "includes" -> IncStep(s, fs, "title")
          [] s.pc = "title" -> to(ReplaceAll(s.contents, "{ title }", md.title))
          [] s.pc = "date" ->
                to(ReplaceAll(s.contents, "{ date }", DateString(md)))
          [] s.pc = "author" ->
                to(ReplaceAll(s.contents, "{ author }", md.author))
          [] s.pc = "current_year" ->
                to(ReplaceAll(s.contents, "{ current_year }", CurrentYear))
          [] s.pc = "group" ->
                LET new == GroupStep(s.contents, md, fs)
                IN  IF IsSome(new) THEN to(Unwrap(new))
                    ELSE [s EXCEPT !.pc = "panic"]
          [] s.pc = "prev" -> to(PrevStep(s.contents, prv, doc))
          [] s.pc = "next" -> to(NextStep(s.contents, nxt, doc))
          [] s.pc = "tags" -> to(TagsStep(s.contents, tagIndex))
          [] s.pc = "tag_pages" ->
                to(TagPagesStep(s.contents, SortedTags(tagIndex), tagIndex,
                                doc))
          [] s.pc = "links" ->
                to(rewrite_local_links(s.contents, doc, RootPath))
          [] OTHER -> s

\* Page::generate run to its end: the state [contents, pc] it ends in, with
\* pc "done", or "panic" when a file it reads is missing.
RECURSIVE Generate(_, _, _, _, _, _)
Generate(s, c, prv, nxt, tagIndex, fs) ==
    IF s.pc \in {"done", "panic"} THEN s
    ELSE Generate(GenStep(s, c, prv, nxt, tagIndex, fs), c, prv, nxt,
                  tagIndex, fs)

\* The page bodies generate is run on.
GenBodies ==
    { <<"{ title }", "{ date }", "{ author }", "{ current_year }", "{ title }",
        Grp(<<"/", FileNames[1]>>), Inc(<<FileNames[2]>>)>>,
      AHref \o <<"{ prev.path }">> \o TagEnd \o <<"{ prev.title }">>
        \o AHref \o <<"{ next.path }">> \o TagEnd
        \o <<"{ next.title }", Grp(<<FileNames[1]>>)>>,
      <<TagsOpen>> \o AHref \o <<"{ tag.page.link }">> \o TagEnd
        \o <<"{ tag.page.link_size }", "{ tag.page.title }", BlockClose, NL,
             "{ tag.page.title }">>,
      <<TagsOpen, "{ tag.page.title }", BlockClose, TagsOpen,
        "{ tag.page.link_size }", BlockClose>>,
      <<TagsOpen>> \o AHref \o <<"{ tag.page.link }", "\"", " ", "title=", "\"",
                                 "{ tag.page.title }">> \o TagEnd
        \o <<"{ tag.page.title }", ";", BlockClose>> }

\* A group file that holds a token of every step of generate: the tokens of
\* the steps before the group step, of the neighbours, a tags block, and a
\* tag token outside any block.
GroupFileText ==
    <<"{ title }", "{ date }", "{ author }", "{ current_year }",
      Inc(<<FileNames[2]>>), "{ prev.title }", "{ next.path }",
      TagsOpen, "{ tag.page.link_size }", BlockClose, "{ tag.page.title }">>

\* The files under the root generate is run with: the first is the file the
\* { group } directives name, the second the file the include directives
\* name; each may be missing.
GenFileSystems ==
    {[k \in FileKeys |->
        IF k = <<FileNames[1]>> THEN a
        ELSE IF k = <<FileNames[2]>> THEN b ELSE None] :
      a \in {None, Some(<<"nav">>), Some(GroupFileText)},
      b \in {None, Some(<<"inc", "{ author }">>)}}

\* The metadata of the pages generate is run on.
GenMetadata ==
    {[NewMetadata(<<"/", "blog", "/", "p.html">>)
        EXCEPT !.title = t, !.group = g, !.date = d, !.author = <<"Ann">>] :
      t \in {<<"T">>, <<"{ title }", "{ date }">>},
      g \in {None, Some(<<"g">>)},
      d \in {None, Some(1)}}

\* The neighbours generate is called with.
GenNeighbours ==
    {None, Some([NewMetadata(<<"/", "q.html">>) EXCEPT !.title = <<"Q">>])}

\* The tag indexes generate is called with: empty, one tag that has no page
\* of its own, two tags with a page each.
GenTagIndexes ==
    { <<>>,
      [n \in {<<"a">>} |->
        [path |-> <<>>, meta |-> <<NewMetadata(<<"/", "q.html">>)>>]],
      [n \in {<<"A">>, <<"a">>} |->
        IF n = <<"A">>
        THEN [path |-> <<"/", "tags", "/", "A.html">>,
              meta |-> <<NewMetadata(<<"/", "q.html">>)>>]
        ELSE [path |-> <<"/", "tags", "/", "a.html">>,
              meta |-> <<NewMetadata(<<"/", "q.html">>),
                         NewMetadata(<<"/", "r.html">>)>>]] }

InitGen ==
    /\ contents \in GenBodies
    /\ metadata \in GenMetadata
    /\ output_path = RootPath \o Components(Drop(metadata.path, 1))
    /\ prev \in GenNeighbours
    /\ next \in GenNeighbours
    /\ tags \in GenTagIndexes
    /\ files \in GenFileSystems
    /\ template = contents
    /\ reader = <<>>
    /\ reading_metadata = FALSE
    /\ processed_contents = <<>>
    /\ NoSite
    /\ pc = "includes"

\* One step of Page::generate.
GenerateStep ==
    /\ pc \notin {"done", "panic"}
    /\ LET s == GenStep([contents |-> contents, pc |-> pc],
                        [metadata |-> metadata, output_path |-> output_path],
                        prev, next, tags, files)
       IN  /\ contents' = s.contents
           /\ pc' = s.pc
    /\ UNCHANGED <<metadata, metaVars, genVars, files, template, siteVars>>

NextGen == GenerateStep

SpecGen == InitGen /\ [][NextGen]_vars

--------------------------------------------------------------------------
(* Claims about process_includes, checked under SpecInc *)

\* The files the directives of a text name.
Refs(text) ==
    {get_local_include_path(IncludePathOf(text[i])) :
        i \in {j \in 1..Len(text) : IsInclude(text[j])}}

FileRefs(fs, k) ==
    IF IsSome(ReadToString(fs, k)) THEN Refs(Unwrap(ReadToString(fs, k)))
    ELSE {}

\* The files reached from a set of files in at most n steps of the include
\* graph.
RECURSIVE Reach(_, _, _)
Reach(fs, ks, n) ==
    IF n = 0 THEN ks
    ELSE Reach(fs, ks \cup UNION {FileRefs(fs, k) : k \in ks}, n - 1)

\* The include graph of the text is acyclic and all its files exist.
AcyclicAndPresent(text, fs) ==
    \A k \in Reach(fs, Refs(text), NumFiles) :
        /\ IsSome(ReadToString(fs, k))
        /\ k \notin Reach(fs, FileRefs(fs, k), NumFiles)

\* The nesting depth of the directives of a text (followed n levels deep).
RECURSIVE Depth(_, _, _)
Depth(text, fs, n) ==
    IF n = 0 \/ Refs(text) = {} THEN 0
    ELSE 1 + SetMax({Depth(IF IsSome(ReadToString(fs, k))
                           THEN Unwrap(ReadToString(fs, k)) ELSE <<>>,
                           fs, n - 1) : k \in Refs(text)})

\* The text with every directive, at every nesting depth, replaced by the
\* full text of its file (followed n levels deep).
RECURSIVE Expand(_, _, _)
Expand(text, fs, n) ==
    IF n = 0 THEN text
    ELSE Concat([i \in 1..Len(text) |->
            IF IsInclude(text[i])
            THEN Expand(Unwrap(ReadToString(fs,
                            get_local_include_path(IncludePathOf(text[i])))),
                        fs, n - 1)
            ELSE <<text[i]>>])

HasInclude(text) == \E i \in 1..Len(text) : IsInclude(text[i])

\* C6: for a page whose include graph is acyclic and whose include files all
\* exist, process_includes terminates at a fixpoint: no file read fails, every
\* pass either leaves the text as it is (and the loop ends) or lowers the
\* nesting depth of its directives, and the final body holds no directive, is
\* the body with every directive at every depth replaced by its file's text,
\* and is left unchanged by another run of the expansion.
C6_IncludesReachFixpoint ==
    AcyclicAndPresent(template, files) =>
        /\ pc # "panic"
        /\ pc = "includes" =>
              LET new == Unwrap(PassIncludes(contents, files))
              IN  /\ Len(new) <= MaxText
                  /\ \/ new = contents
                     \/ Depth(new, files, NumFiles + 1)
                            < Depth(contents, files, NumFiles + 1)
        /\ pc = "done" =>
              /\ ~HasInclude(contents)
              /\ contents = Expand(template, files, NumFiles + 1)
              /\ IncStep([contents |-> contents, pc |-> "includes"],
                         files, "done")
                    = [contents |-> contents, pc |-> "done"]

\* C6's case: the expansion has ended on a body whose directives nest at
\* least two files deep.
C6_Witness ==
    /\ pc = "done"
    /\ AcyclicAndPresent(template, files)
    /\ Depth(template, files, NumFiles + 1) >= 2
    /\ contents # template

--------------------------------------------------------------------------
(* Claims about Page::generate, checked under SpecGen *)

Count(text, tok) == Cardinality({i \in 1..Len(text) : text[i] = tok})

\* The single-value placeholder tokens of the template grammar.
ValueTokens ==
    {"{ title }", "{ date }", "{ author }", "{ current_year }",
     "{ prev.title }", "{ prev.path }", "{ next.title }", "{ next.path }"}

TagPageTokens ==
    {"{ tag.page.link }", "{ tag.page.link_size }", "{ tag.page.title }"}

\* A { tags '<markup>' } block stands at i: an opening with a closing quote
\* and brace after it on its line.
TagsBlockAt(text, i) == text[i] = TagsOpen /\ BlockEnd(text, i) # 0

\* The text holds a placeholder token of the grammar.
HoldsToken(text) ==
    \E i \in 1..Len(text) :
        \/ text[i] \in ValueTokens \cup GroupAtoms \cup TagPageTokens
        \/ TagsBlockAt(text, i)

\* The tokens a step of generate replaces, each with the text it puts in.
StepValues(step) ==
    CASE step = "title" -> {<<"{ title }", metadata.title>>}
      [] step = "date" -> {<<"{ date }", DateString(metadata)>>}
      [] step = "author" -> {<<"{ author }", metadata.author>>}
      [] step = "current_year" -> {<<"{ current_year }", CurrentYear>>}
      [] step = "prev" ->
            {<<"{ prev.title }", NeighbourTitle(prev)>>,
             <<"{ prev.path }", NeighbourPath(prev, output_path)>>}
      [] step = "next" ->
            {<<"{ next.title }", NeighbourTitle(next)>>,
             <<"{ next.path }", NeighbourPath(next, output_path)>>}
      [] OTHER -> {}

\* The files the { group } directives of the body name.
GroupFilesUsed ==
    {get_local_include_path(GroupPathTable[contents[i]]) :
        i \in {j \in 1..Len(contents) : contents[j] \in GroupAtoms}}

\* No text a step puts into the body holds a token of that same step.
StepValuesFree(step) ==
    CASE step = "group" ->
            \A k \in GroupFilesUsed :
                IsSome(ReadToString(files, k)) =>
                    \A i \in 1..Len(Unwrap(ReadToString(files, k))) :
                        Unwrap(ReadToString(files, k))[i] \notin GroupAtoms
      [] step = "tags" ->
            \A i \in 1..Len(contents) :
                TagsBlockAt(contents, i) =>
                    \A k \in (i + 1)..BlockEnd(contents, i) :
                        contents[k] # TagsOpen
      [] OTHER ->
            \A p \in StepValues(step), q \in StepValues(step) :
                Count(p[2], q[1]) = 0

\* What a step that has run leaves of its own tokens: none of them, save
\* that the loop over the tags takes the first of each tag.page token once
\* per tag of the index and leaves the others.
StepLeavesNone(step, before, after) ==
    CASE step = "group" ->
            \A i \in 1..Len(after) : after[i] \notin GroupAtoms
      [] step = "tags" ->
            \A i \in 1..Len(after) : ~TagsBlockAt(after, i)
      [] step = "tag_pages" ->
            \A t \in TagPageTokens :
                Count(after, t) =
                    SetMax({0, Count(before, t) - Cardinality(DOMAIN tags)})
      [] OTHER ->
            \A p \in StepValues(step) : Count(after, p[1]) = 0

\* No value generate puts into the body holds a placeholder token.
AllValuesFree ==
    /\ ~HoldsToken(metadata.title \o metadata.author)
    /\ ~HoldsToken(NeighbourTitle(prev) \o NeighbourTitle(next))
    /\ \A k \in DOMAIN files :
          IsSome(files[k]) /\ HoldsToken(Unwrap(files[k])) =>
              \A a \in GroupAtoms \cup IncludeAtoms :
                  /\ Count(template, a) = 0
                  /\ \A h \in DOMAIN files :
                        IsSome(files[h]) => Count(Unwrap(files[h]), a) = 0

--------------------------------------------------------------------------
(* SiteGen: sorting by date (mod.rs) *)

\* partial_cmp as a slip would make it: no ordering when a date is absent.
partial_cmp_dated_only(a, b) ==
    IF ~IsSome(a) \/ ~IsSome(b) THEN None
    ELSE Some(IF Unwrap(a) = Unwrap(b) THEN "Equal"
              ELSE IF Unwrap(a) < Unwrap(b) THEN "Less" ELSE "Greater")

\* Option<NaiveDate>::partial_cmp, as derived for Option: an absent date is
\* less than every date, dates compare by the calendar; the result is an
\* Option that is never None.
partial_cmp(a, b) ==
    Some(IF a = b THEN "Equal"
         ELSE IF ~IsSome(a) THEN "Less"
         ELSE IF ~IsSome(b) THEN "Greater"
         ELSE IF Unwrap(a) < Unwrap(b) THEN "Less" ELSE "Greater")

\* The closure handed to sort_by, on the elements at i and j of a list with
\* the given dates: a.date.partial_cmp(&b.date) for the ascending sort of a
\* group (mod.rs:217), rhs.date.partial_cmp(&lhs.date) for the descending sort
\* of a tag's list (mod.rs:158).  None is where the unwrap panics.
Compare(dates, i, j, descending) ==
    IF descending THEN partial_cmp(dates[j], dates[i])
    ELSE partial_cmp(dates[i], dates[j])

\* slice::sort_by on a short list is an insertion sort: the element x moves
\* left past every element it is less than.  `order` is the sorted part, as
\* indexes into the list; the result is None when a comparison panics.
RECURSIVE InsertTail(_, _, _, _)
InsertTail(order, x, dates, descending) ==
    IF order = <<>> THEN Some(<<x>>)
    ELSE LET last == order[Len(order)]
             c == Compare(dates, x, last, descending)
         IN  IF ~IsSome(c) THEN None
             ELSE IF Unwrap(c) = "Less"
             THEN LET r == InsertTail(Take(order, Len(order) - 1), x, dates,
                                      descending)
                  IN  IF IsSome(r) THEN Some(Unwrap(r) \o <<last>>) ELSE None
             ELSE Some(order \o <<x>>)

RECURSIVE SortPrefix(_, _, _)
SortPrefix(dates, n, descending) ==
    IF n = 0 THEN Some(<<>>)
    ELSE LET r == SortPrefix(dates, n - 1, descending)
         IN  IF IsSome(r) THEN InsertTail(Unwrap(r), n, dates, descending)
             ELSE None

\* The order of a list that is left as it was found.
SortOrderAsFound(dates, descending) == Some([i \in 1..Len(dates) |-> i])

\* sort_by: the order the list with the given dates is put in, as indexes
\* into it; None when the comparison panics.
SortOrder(dates, descending) == SortPrefix(dates, Len(dates), descending)

--------------------------------------------------------------------------
(* SiteGen::read_templates (mod.rs) *)

\* process_metadata run to its end: "done", "panic" on a date that does not
\* parse, "hang" when the loop has reached an iteration that changes nothing.
RECURSIVE MetaRun(_)
MetaRun(s) ==
    IF s.pc \in {"done", "panic", "hang"} THEN s
    ELSE IF s.pc = "meta" /\ MetaLoopStep(s) = s THEN [s EXCEPT !.pc = "hang"]
    ELSE MetaRun(MetaStep(s))

\* Page::new (page.rs:41-68) on the template `stem`.<ext> in the directory
\* `dir` under the root, with the given text: the output file has the
\* extension html.
NewPage(dir, stem, text) ==
    LET out == RootPath \o dir \o <<stem \o ".html">>
    IN  [output_path |-> out,
         metadata |-> NewMetadata(get_page_path(RootPath, out)),
         contents |-> text]

\* Page::new and process_metadata: the page and the control point
\* process_metadata has ended in.
ReadPage(dir, stem, text) ==
    LET page == NewPage(dir, stem, text)
        s == MetaRun(MetaStart(text, page.metadata))
    IN  [page |-> [page EXCEPT !.metadata = s.metadata,
                               !.contents = s.processed_contents],
         pc |-> s.pc]

\* The loop over the tags of a page (mod.rs:117-120): the page's metadata is
\* pushed on the list of every tag of its header, in the header's order.
RECURSIVE AddTags(_, _, _)
AddTags(index, names, md) ==
    IF names = <<>> THEN index
    ELSE LET t == Head(names)
             new == IF t \in DOMAIN index
                    THEN [index EXCEPT ![t].meta = Append(@, md)]
                    ELSE index @@ (t :> [path |-> <<>>, meta |-> <<md>>])
         IN  AddTags(new, Tail(names), md)

\* groups.entry(key).or_default().push(page)
PushPage(grps, key, page) ==
    IF key \in DOMAIN grps THEN [grps EXCEPT ![key] = Append(@, page)]
    ELSE grps @@ (key :> <<page>>)

\* One iteration of the loop of read_templates (mod.rs:106-142) on the
\* directory entry [dir, stem, ext, text], on
\* st = [tags, groups, tag_template, tag_template_path, pc]; `last` tells
\* that the walk ends with the entry.
ReadEntry(st, entry, last) ==
    LET r == ReadPage(entry.dir, entry.stem, entry.text)
        md == r.page.metadata
        after == IF last THEN "process_tags" ELSE st.pc
    IN  IF entry.ext = ".sgpage"
        THEN IF r.pc = "done"
             THEN [st EXCEPT
                    !.tags = IF IsSome(md.tags)
                             THEN AddTags(st.tags, Unwrap(md.tags), md)
                             ELSE st.tags,
                    !.groups = PushPage(st.groups, md.group, r.page),
                    !.pc = after]
             ELSE [st EXCEPT !.pc = r.pc]
        ELSE IF entry.ext = ".sgtag" /\ ~IsSome(st.tag_template)
        THEN [st EXCEPT !.tag_template = Some(entry.text),
                        !.tag_template_path = Some([dir |-> entry.dir,
                                                    stem |-> entry.stem]),
                        !.pc = after]
        ELSE [st EXCEPT !.pc = after]

\* The step of read_templates on the next entry of the walk.
ReadTemplate ==
    /\ pc = "read_templates"
    /\ walk # <<>>
    /\ LET st == ReadEntry([tags |-> tags, groups |-> groups,
                            tag_template |-> tag_template,
                            tag_template_path |-> tag_template_path,
                            pc |-> pc],
                           Head(walk), Tail(walk) = <<>>)
       IN  /\ tags' = st.tags
           /\ groups' = st.groups
           /\ tag_template' = st.tag_template
           /\ tag_template_path' = st.tag_template_path
           /\ pc' = st.pc
    /\ walk' = Tail(walk)
    /\ UNCHANGED <<pageVars, files, site, pending, rendered>>

--------------------------------------------------------------------------
(* SiteGen::process_tags (mod.rs) *)

\* The list put in the order sort_by leaves it in.
Permute(list, order) == [i \in 1..Len(order) |-> list[order[i]]]

\* str::to_lowercase on the atoms of a tag name.
LowerAtom(a) == IF a = "A" THEN "a" ELSE a

\* PathBuf::set_extension("html") on the file name <stem>.sgpage: a name
\* that is all extension has none to replace.
HtmlName(stem) == IF stem = "" THEN ".sgpage.html" ELSE stem \o ".html"

\* The first match of RE_PAGES in the text (mod.rs:169): where it starts, 0
\* when there is none.
FirstPages(text) ==
    LET starts == {i \in 1..Len(text) :
                     text[i] = PagesOpen /\ BlockEnd(text, i) # 0}
    IN  IF starts = {} THEN 0
        ELSE CHOOSE i \in starts : \A j \in starts : i <= j

\* The markup of one page of a tag (mod.rs:173-175).
PageBlock(link_block, md) ==
    ReplaceAll(ReplaceAll(link_block, "{ page.link }", md.path),
               "{ page.title }", md.title)

\* The repeated block (mod.rs:169-181): the markup of the first
\* { pages '<markup>' } of the text, once per page of the tag.
RepeatedBlock(text, pages) ==
    LET i == FirstPages(text)
    IN  IF i = 0 THEN <<>>
        ELSE Concat([n \in 1..Len(pages) |->
                        PageBlock(SubSeq(text, i + 1, BlockEnd(text, i) - 1),
                                  pages[n])])

\* RE_PAGES.replace_all(&contents, &repeated_block) (mod.rs:182): every
\* match, found left to right, becomes the repeated block.
RECURSIVE PagesStep(_, _)
PagesStep(text, repeated_block) ==
    IF text = <<>> THEN <<>>
    ELSE LET j == BlockEnd(text, 1)
         IN  IF Head(text) = PagesOpen /\ j # 0
             THEN repeated_block \o PagesStep(Drop(text, j), repeated_block)
             ELSE <<Head(text)>> \o PagesStep(Tail(text), repeated_block)

\* The text of the page of a tag: the tag template with the tag's name for
\* its title and its pages blocks filled in (mod.rs:161-182).
TagPageText(tpl, name, pages) ==
    LET titled == ReplaceAll(tpl, "{ title }", name)
    IN  PagesStep(titled, RepeatedBlock(titled, pages))

\* The body of the loop of process_tags (mod.rs:155-196) for the tag `name`,
\* on st = [tags, groups, pc].
ProcessTag(st, name, tpl, tpl_path) ==
    LET meta == st.tags[name].meta
        order == SortOrder([i \in 1..Len(meta) |-> meta[i].date], TRUE)
    IN  IF ~IsSome(order) THEN [st EXCEPT !.pc = "panic"]
        ELSE LET pages == Permute(meta, Unwrap(order))
                 stem == JoinStr([i \in 1..Len(name) |-> LowerAtom(name[i])])
                 out == RootPath \o tpl_path.dir \o <<HtmlName(stem)>>
                 text == TagPageText(tpl, name, pages)
                 page == [output_path |-> out,
                          metadata |-> NewMetadata(get_page_path(RootPath, out)),
                          contents |-> text]
                 s == MetaRun(MetaStart(text, page.metadata))
                 sorted == [st.tags EXCEPT ![name].meta = pages]
             IN  IF s.pc # "done" THEN [st EXCEPT !.tags = sorted, !.pc = s.pc]
                 ELSE [st EXCEPT
                        !.tags = [sorted EXCEPT ![name].path = s.metadata.path],
                        !.groups = PushPage(st.groups, None,
                                     [page EXCEPT
                                        !.metadata = s.metadata,
                                        !.contents = s.processed_contents])]

\* The loop of process_tags over the tags in the order of the index.
RECURSIVE ProcessTagsLoop(_, _, _, _)
ProcessTagsLoop(st, names, tpl, tpl_path) ==
    IF names = <<>> \/ st.pc # "process_tags" THEN st
    ELSE ProcessTagsLoop(ProcessTag(st, Head(names), tpl, tpl_path),
                         Tail(names), tpl, tpl_path)

\* process_tags (mod.rs:149-199); without a tag template it does nothing.
ProcessTags ==
    /\ pc = "process_tags"
    /\ LET st == IF IsSome(tag_template)
                 THEN ProcessTagsLoop(
                        [tags |-> tags, groups |-> groups, pc |-> pc],
                        SortedTags(tags), Unwrap(tag_template),
                        Unwrap(tag_template_path))
                 ELSE [tags |-> tags, groups |-> groups, pc |-> pc]
       IN  /\ tags' = st.tags
           /\ groups' = st.groups
           /\ pending' = IF st.pc = "process_tags" THEN DOMAIN st.groups
                         ELSE pending
           /\ pc' = IF st.pc # "process_tags" THEN st.pc
                    ELSE IF DOMAIN st.groups = {} THEN "done"
                    ELSE "generate_pages"
    /\ UNCHANGED <<pageVars, files, walk, site, tag_template,
                   tag_template_path, rendered>>

--------------------------------------------------------------------------
(* SiteGen::generate_pages (mod.rs) *)

\* The neighbours of the page at i of a group's list (mod.rs:221-233): none
\* in the list of the pages without a group (mod.rs:205-212).
PrevOf(pages, i, key) ==
    IF IsSome(key) /\ i > 1 THEN Some(pages[i - 1].metadata) ELSE None

\* The next neighbour as a slip in the bound would make it: the page before
\* the last has none.
NextOfShortByOne(pages, i, key) ==
    IF IsSome(key) /\ i + 1 < Len(pages) THEN Some(pages[i + 1].metadata)
    ELSE None

NextOf(pages, i, key) ==
    IF IsSome(key) /\ i < Len(pages) THEN Some(pages[i + 1].metadata) ELSE None

\* The loop over the pages of a group from the page at i on, on
\* st = [pages, rendered, pc]: generate is called on each page in turn with
\* its neighbours; a panic ends the run.
RECURSIVE RenderLoop(_, _, _, _, _)
RenderLoop(st, i, key, tagIndex, fs) ==
    IF i > Len(st.pages) \/ st.pc = "panic" THEN st
    ELSE LET page == st.pages[i]
             g == Generate([contents |-> page.contents, pc |-> "includes"],
                           page, PrevOf(st.pages, i, key),
                           NextOf(st.pages, i, key), tagIndex, fs)
         IN  RenderLoop(
                IF g.pc = "panic" THEN [st EXCEPT !.pc = "panic"]
                ELSE [st EXCEPT !.pages[i].contents = g.contents,
                                !.rendered = Append(@, page.output_path)],
                i + 1, key, tagIndex, fs)

\* One iteration of the loop of generate_pages over the groups (mod.rs:202-
\* 238), on the group under `key`: a group with a name is sorted by date,
\* oldest first, and then every page of the group is generated.  The HashMap
\* hands the groups out in any order.
GenerateGroup(key) ==
    /\ pc = "generate_pages"
    /\ key \in pending
    /\ LET pages == groups[key]
           order == IF IsSome(key)
                    THEN SortOrder([i \in 1..Len(pages) |->
                                      pages[i].metadata.date], FALSE)
                    ELSE Some([i \in 1..Len(pages) |-> i])
       IN  IF ~IsSome(order)
           THEN /\ pc' = "panic"
                /\ UNCHANGED <<groups, rendered, pending>>
           ELSE LET st == RenderLoop(
                            [pages |-> Permute(pages, Unwrap(order)),
                             rendered |-> rendered, pc |-> pc],
                            1, key, tags, files)
                IN  /\ groups' = [groups EXCEPT ![key] = st.pages]
                    /\ rendered' = st.rendered
                    /\ pending' = pending \ {key}
                    /\ pc' = IF st.pc = "panic" THEN "panic"
                             ELSE IF pending = {key} THEN "done"
                             ELSE pc
    /\ UNCHANGED <<pageVars, files, walk, site, tags, tag_template,
                   tag_template_path>>

--------------------------------------------------------------------------
(* SiteGen::run (mod.rs): the sites of the model *)

\* Where the page templates of a site are, below the root.
PagePlaces ==
    << [dir |-> <<"blog">>, stem |-> "p1"],
       [dir |-> <<>>, stem |-> "p2"],
       [dir |-> <<"blog">>, stem |-> "p3"],
       [dir |-> <<"blog", "old">>, stem |-> "p4"] >>

PageTitles == <<"P1", "P2", "P3", "P4">>

\* The body of every page template of a site: the title, a tag cloud that
\* shows name, size and link of each tag, and the path and the title of
\* both neighbours.
PageBody ==
    <<"{ title }", NL,
      TagsOpen, "{ tag.page.title }", "=", "{ tag.page.link_size }", "@">>
    \o AHref \o <<"{ tag.page.link }">> \o TagEnd
    \o <<";", BlockClose, NL,
         "prev=", "{ prev.path }", "{ prev.title }", NL,
         "to=", "{ next.title }", NL,
         "next=", "{ next.path }">>

\* A header line "<key>: <text>", and none for an absent value.
HeaderLine(key, val) ==
    IF IsSome(val) THEN <<key, ":", " ">> \o Unwrap(val) \o <<NL>> ELSE <<>>

\* The directory entry of the n-th page template, with a header that gives
\* the title and, where present, the group, the date and the tags.
PageEntry(n, group, date, tagText) ==
    [dir |-> PagePlaces[n].dir, stem |-> PagePlaces[n].stem, ext |-> ".sgpage",
     text |-> <<"-", "-", NL>>
              \o HeaderLine("title", Some(<<PageTitles[n]>>))
              \o HeaderLine("group", group)
              \o HeaderLine("date",
                            IF IsSome(date) THEN Some(FormatDate(Unwrap(date)))
                            ELSE None)
              \o HeaderLine("tags", tagText)
              \o <<"-", "-", "-", NL>>
              \o PageBody]

\* The directory entry of the n-th page template with an include directive
\* on a line of its own after the body.
IncludingEntry(n, group, path) ==
    [PageEntry(n, group, None, None) EXCEPT !.text = @ \o <<NL, Inc(path)>>]

\* The tag templates of the model: one pages block, two pages blocks of
\* different markup, and one pages block under a header that names a group.
TagTemplates ==
    { <<"{ title }", NL, PagesOpen>> \o AHref \o <<"{ page.link }">> \o TagEnd
        \o <<"{ page.title }", ";", BlockClose, NL>>,
      <<"{ title }", NL, PagesOpen, "{ page.title }", ";", BlockClose, NL,
        PagesOpen, "{ page.link }", ";", BlockClose, NL>>,
      <<"-", "-", NL>> \o HeaderLine("group", Some(<<"g">>))
        \o <<"-", "-", "-", NL,
             "{ title }", NL, PagesOpen, "{ page.title }", ";", BlockClose, NL>> }

TagTemplateEntry(text) ==
    [dir |-> <<"tags">>, stem |-> "tag", ext |-> ".sgtag", text |-> text]

OptionOf(S) == {None} \cup {Some(v) : v \in S}

\* The sites whose pages are grouped and dated: every page is in the group
\* "g" with any date or none, or in no group and undated; there is no tag
\* template.
RECURSIVE GroupWalks(_)
GroupWalks(n) ==
    IF n = 0 THEN {<<>>}
    ELSE {Append(w, PageEntry(n, Some(<<"g">>), d, None)) :
            w \in GroupWalks(n - 1), d \in OptionOf(Dates)}
         \cup {Append(w, PageEntry(n, None, None, None)) :
                 w \in GroupWalks(n - 1)}

\* The date and the tags line of a tagged page: untagged, the tag "a" on
\* either of the two earliest dates or undated, "a" twice, two other tags.
TaggedPages ==
    { <<None, None>>,
      <<Some(1), Some(<<"a">>)>>,
      <<Some(2), Some(<<"a">>)>>,
      <<None, Some(<<"a">>)>>,
      <<Some(1), Some(<<"a", ",", " ", "a">>)>>,
      <<Some(2), Some(<<"A", ",", " ", "b">>)>> }

\* The sites whose pages are tagged: every page has one of the dates and
\* tags lines above and no group.
RECURSIVE TagWalks(_)
TagWalks(n) ==
    IF n = 0 THEN {<<>>}
    ELSE {Append(w, PageEntry(n, None, c[1], c[2])) :
            w \in TagWalks(n - 1), c \in TaggedPages}

\* The sites whose pages include a file: every page is in the group "g" or
\* in no group, undated, and names the first file of SiteFiles, which is
\* there, or the second, which is not.
RECURSIVE IncludeWalks(_)
IncludeWalks(n) ==
    IF n = 0 THEN {<<>>}
    ELSE {Append(w, IncludingEntry(n, g, <<FileNames[j]>>)) :
            w \in IncludeWalks(n - 1), g \in OptionOf({<<"g">>}), j \in 1..2}

Reverse(list) == [i \in 1..Len(list) |-> list[Len(list) + 1 - i]]

\* Sites whose entries WalkDir yields in another order: the smaller grouped
\* sites and the tagged sites with a tag template, last entry first.
ReorderedWalks ==
    {Reverse(w) :
        w \in GroupWalks(MaxTagged)
               \cup {Append(v, TagTemplateEntry(t)) :
                       v \in TagWalks(MaxTagged), t \in TagTemplates}}

\* The directory walks of the model, in the order WalkDir yields the
\* entries: the grouped sites, the sites with includes, the sites in another
\* order, and the tagged sites without a tag template and with one.
Sites ==
    GroupWalks(MaxPages)
    \cup IncludeWalks(MaxPages)
    \cup ReorderedWalks
    \cup TagWalks(MaxTagged)
    \cup {Append(w, TagTemplateEntry(t)) :
            w \in TagWalks(MaxTagged), t \in TagTemplates}

\* The files under the root of a site.
SiteFiles ==
    [k \in FileKeys |-> IF k = <<FileNames[1]>> THEN Some(<<"nav">>) ELSE None]

\* SiteGen::new (mod.rs:71-78) on the root of one of the sites.
Init ==
    /\ walk \in Sites
    /\ site = walk
    /\ groups = <<>>
    /\ tags = <<>>
    /\ tag_template = None
    /\ tag_template_path = None
    /\ pending = {}
    /\ rendered = <<>>
    /\ files = SiteFiles
    /\ contents = <<>>
    /\ template = <<>>
    /\ metadata = NewMetadata(<<>>)
    /\ reader = <<>>
    /\ reading_metadata = FALSE
    /\ processed_contents = <<>>
    /\ output_path = RootPath
    /\ prev = None
    /\ next = None
    /\ pc = "read_templates"

\* SiteGen::run (mod.rs:81-91): read_templates, process_tags, generate_pages.
Next ==
    \/ ReadTemplate
    \/ ProcessTags
    \/ \E key \in pending : GenerateGroup(key)

Spec == Init /\ [][Next]_vars

--------------------------------------------------------------------------
(* Claims about SiteGen, checked under Spec *)

\* generate_pages has iterated the group under the key.
GroupDone(key) ==
    /\ key \in DOMAIN groups
    /\ key \notin pending
    /\ pc \in {"generate_pages", "done"}

\* What a rendered page shows after its "next=" mark: the text that replaced
\* { next.path }.
NextText(page) == Drop(page.contents, IndexOf(page.contents, "next="))

\* The place in the list of the page the next link of the page at i leads
\* to: 0 when the link is "#" or leads to no page of the list.
NextIndex(pages, i) ==
    LET hits == {j \in 1..Len(pages) :
                    NextText(pages[i]) =
                        make_relative_link(pages[j].metadata.path,
                                           pages[i].output_path, RootPath)}
    IN  IF NextText(pages[i]) = <<"#">> \/ hits = {} THEN 0
        ELSE CHOOSE j \in hits : TRUE

\* The places visited by following the next links from the page at i, for
\* at most `fuel` pages.
RECURSIVE FollowNext(_, _, _)
FollowNext(pages, i, fuel) ==
    IF fuel = 0 \/ i = 0 THEN <<>>
    ELSE <<i>> \o FollowNext(pages, NextIndex(pages, i), fuel - 1)

DateOf(page) == Unwrap(page.metadata.date)

\* The number of a page in the order of discovery.
PageNo(page) ==
    LET n == CHOOSE n \in 1..Len(PageTitles) :
                page.metadata.title = <<PageTitles[n]>>
    IN  CHOOSE k \in 1..Len(site) :
            site[k].ext = ".sgpage" /\ site[k].stem = PagePlaces[n].stem

\* The group has a name, has been generated, and all its pages have a date.
DatedGroupDone(key) ==
    /\ IsSome(key)
    /\ GroupDone(key)
    /\ \A i \in 1..Len(groups[key]) : IsSome(groups[key][i].metadata.date)

\* The walk along the next links from the page at `start` visits every page
\* of the list once and ends at a page whose { next.path } was rendered "#".
VisitsAll(pages, start) ==
    LET chain == FollowNext(pages, start, Len(pages) + 1)
    IN  /\ Len(chain) = Len(pages)
        /\ {chain[n] : n \in 1..Len(chain)} = 1..Len(pages)
        /\ NextText(pages[chain[Len(chain)]]) = <<"#">>

\* C1 as stated: in a generated group whose pages all have a date, the walk
\* along the next links from the earliest-dated page visits every page once,
\* in strictly ascending order of date, and ends at a page whose
\* { next.path } is "#".
C1_NextChainStrictlyAscending ==
    \A key \in DOMAIN groups :
        DatedGroupDone(key) =>
            LET pages == groups[key]
            IN  \A e \in 1..Len(pages) :
                    (\A j \in 1..Len(pages) : DateOf(pages[e]) <= DateOf(pages[j]))
                    => LET chain == FollowNext(pages, e, Len(pages) + 1)
                       IN  /\ VisitsAll(pages, e)
                           /\ \A n \in 1..(Len(chain) - 1) :
                                 DateOf(pages[chain[n]])
                                    < DateOf(pages[chain[n + 1]])

\* C1 as amended: in a generated group whose pages all have a date, the walk
\* along the next links from the first page of the sorted group, which is
\* the earliest-dated page discovered first, visits every page once and ends
\* at a page whose { next.path } is "#"; the dates along the walk never
\* descend, pages of the same date come in the order of their discovery, and
\* the dates strictly ascend when they are pairwise distinct.
C1_NextChainAscending ==
    \A key \in DOMAIN groups :
        DatedGroupDone(key) =>
            LET pages == groups[key]
                chain == FollowNext(pages, 1, Len(pages) + 1)
            IN  /\ \A j \in 1..Len(pages) :
                      \/ DateOf(pages[1]) < DateOf(pages[j])
                      \/ /\ DateOf(pages[1]) = DateOf(pages[j])
                         /\ PageNo(pages[1]) <= PageNo(pages[j])
                /\ VisitsAll(pages, 1)
                /\ \A n \in 1..(Len(chain) - 1) :
                      \/ DateOf(pages[chain[n]]) < DateOf(pages[chain[n + 1]])
                      \/ /\ DateOf(pages[chain[n]]) = DateOf(pages[chain[n + 1]])
                         /\ PageNo(pages[chain[n]]) < PageNo(pages[chain[n + 1]])

\* A group of three pages with three different dates, discovered in another
\* order than that of their dates, has been generated.
C1_Witness ==
    \E key \in DOMAIN groups :
        /\ DatedGroupDone(key)
        /\ Len(groups[key]) >= 3
        /\ \A i, j \in 1..Len(groups[key]) :
              i # j => DateOf(groups[key][i]) # DateOf(groups[key][j])
        /\ PageNo(groups[key][1]) # 1
        /\ Len(NextText(groups[key][1])) > 1

\* The place of a date in the order of Option<NaiveDate>: an absent date
\* comes before every date.
DateRank(d) == IF IsSome(d) THEN Unwrap(d) ELSE 0

GroupDates(key) == [i \in 1..Len(groups[key]) |-> groups[key][i].metadata.date]

TagDates(name) == [i \in 1..Len(tags[name].meta) |-> tags[name].meta[i].date]

\* process_tags has sorted the lists of the tag index.
TagsSorted == IsSome(tag_template) /\ pc \in {"generate_pages", "done"}

\* A page of the index names a file that is not there in an include
\* directive: the one cause of a panic in the sites of the model other than
\* a sort.
SomeIncludeMissing ==
    \E key \in DOMAIN groups :
        \E i \in 1..Len(groups[key]) :
            \E n \in 1..Len(groups[key][i].contents) :
                /\ IsInclude(groups[key][i].contents[n])
                /\ ~IsSome(ReadToString(files, get_local_include_path(
                              IncludePathOf(groups[key][i].contents[n]))))

\* C2: sorting never fails.  The run never panics but for a missing include
\* file (the sites of the model have no other cause of a panic than that
\* and a sort); the ascending sort of every group and the descending sort of
\* every tag's list, whatever dates are present, absent or equal in them,
\* yield an order; and once sorted, a group is in ascending and a tag's list
\* in descending order of date, the absent date least.
C2_SortNeverPanics ==
    /\ pc = "panic" => SomeIncludeMissing
    /\ \A key \in DOMAIN groups :
          /\ IsSome(SortOrder(GroupDates(key), FALSE))
          /\ (IsSome(key) /\ GroupDone(key)) =>
                \A i, j \in 1..Len(groups[key]) :
                    i < j => DateRank(GroupDates(key)[i])
                                <= DateRank(GroupDates(key)[j])
    /\ \A name \in DOMAIN tags :
          /\ IsSome(SortOrder(TagDates(name), TRUE))
          /\ TagsSorted =>
                \A i, j \in 1..Len(tags[name].meta) :
                    i < j => DateRank(TagDates(name)[i])
                                >= DateRank(TagDates(name)[j])

\* A group that holds an undated page and two pages of one date has been
\* sorted and generated.
C2_Witness ==
    \E key \in DOMAIN groups :
        /\ IsSome(key)
        /\ GroupDone(key)
        /\ \E i, j, k \in 1..Len(groups[key]) :
              /\ i < j /\ j < k
              /\ ~IsSome(GroupDates(key)[i])
              /\ IsSome(GroupDates(key)[j])
              /\ GroupDates(key)[j] = GroupDates(key)[k]

\* A page read from a template file: it has the title of its header.  The
\* pages process_tags makes have none.
RealPage(page) == page.metadata.title # <<>>

\* The metadata of the pages read from template files so far.
RealPages ==
    UNION {{groups[key][i].metadata :
                i \in {j \in 1..Len(groups[key]) : RealPage(groups[key][j])}} :
           key \in DOMAIN groups}

\* The pages that carry the tag: the tag is on the tags line of their header.
Carrying(name) ==
    {md \in RealPages :
        IsSome(md.tags)
        /\ \E i \in 1..Len(Unwrap(md.tags)) : Unwrap(md.tags)[i] = name}

Min(a, b) == IF a < b THEN a ELSE b

\* C8: when every page of the run has been rendered, a page read from a
\* template shows one copy of the tags markup per tag of the index, and the
\* size shown for a tag is 11 + min(n, 7), n the number of pages that carry
\* the tag.
C8_TagCloudCountsAndSizes ==
    pc = "done" =>
        \A key \in DOMAIN groups : \A i \in 1..Len(groups[key]) :
            LET text == groups[key][i].contents
            IN  RealPage(groups[key][i]) =>
                    /\ Count(text, "@") = Cardinality(DOMAIN tags)
                    /\ \A k \in 2..(Len(text) - 1) :
                          text[k] = "=" =>
                              text[k + 1] =
                                  ToString(LinkSizeBase
                                      + Min(Cardinality(Carrying(<<text[k - 1]>>)),
                                            LinkSizeCap))

\* The orders of a set of pages from newest to oldest, an undated page taken
\* as the oldest.
NewestFirst(S) ==
    {o \in [1..Cardinality(S) -> S] :
        /\ \A i, j \in 1..Cardinality(S) : i # j => o[i] # o[j]
        /\ \A i, j \in 1..Cardinality(S) :
              i < j => DateRank(o[i].date) >= DateRank(o[j].date)}

\* The text with every { pages '<markup>' } block replaced by its own markup
\* once per page of the list.
RECURSIVE FillPages(_, _)
FillPages(text, pages) ==
    IF text = <<>> THEN <<>>
    ELSE LET j == BlockEnd(text, 1)
         IN  IF Head(text) = PagesOpen /\ j # 0
             THEN Concat([n \in 1..Len(pages) |->
                            PageBlock(SubSeq(text, 2, j - 1), pages[n])])
                  \o FillPages(Drop(text, j), pages)
             ELSE <<Head(text)>> \o FillPages(Tail(text), pages)

\* The page process_tags has made for the tag: the pages are pushed on the
\* list of the pages without a group in the order of the index.
TagPageOf(name) ==
    LET names == SortedTags(tags)
        k == CHOOSE n \in 1..Len(names) : names[n] = name
    IN  groups[None][Len(groups[None]) - Len(names) + k]

\* C9: once process_tags has run with a tag template, the page of every tag
\* is the template with the tag's name for the title and with every
\* { pages '<markup>' } block replaced by <markup> once per page that carries
\* the tag, from newest to oldest, { page.link } being the page's path from
\* the site root and { page.title } its title.
C9_TagPageListsPagesNewestFirst ==
    (TagsSorted /\ None \in pending) =>
        \A name \in DOMAIN tags :
            \E o \in NewestFirst(Carrying(name)) :
                TagPageOf(name).contents =
                    FillPages(ReplaceAll(Unwrap(tag_template), "{ title }",
                                         name), o)

\* The number of pages in the site index.
RECURSIVE TotalPages(_)
TotalPages(grps) ==
    IF DOMAIN grps = {} THEN 0
    ELSE LET key == CHOOSE k \in DOMAIN grps : TRUE
         IN  Len(grps[key])
             + TotalPages([k \in DOMAIN grps \ {key} |-> grps[k]])

\* C10: while read_templates indexes the pages it discovers, every tag of a
\* page's header has its entry in the tag index, the list of a tag holds the
\* pages that carry the tag, each of them once, and every page read is
\* stored once, under the key of its own group.
C10_IndexHoldsEachPageOnce ==
    /\ [](pc \in {"read_templates", "process_tags"} =>
            /\ \A md \in RealPages :
                  IsSome(md.tags) =>
                      \A i \in 1..Len(Unwrap(md.tags)) :
                          Unwrap(md.tags)[i] \in DOMAIN tags
            /\ \A name \in DOMAIN tags :
                  /\ {tags[name].meta[i] : i \in 1..Len(tags[name].meta)}
                        = Carrying(name)
                  /\ Len(tags[name].meta) = Cardinality(Carrying(name))
            /\ \A key \in DOMAIN groups : \A i \in 1..Len(groups[key]) :
                  /\ groups[key][i].metadata.group = key
                  /\ \A k2 \in DOMAIN groups : \A j \in 1..Len(groups[k2]) :
                        groups[k2][j].metadata.path
                            = groups[key][i].metadata.path
                        => (k2 = key /\ j = i))
    /\ [][(pc = "read_templates" /\ Head(walk).ext = ".sgpage"
              /\ pc' \in {"read_templates", "process_tags"})
            => TotalPages(groups') = TotalPages(groups) + 1]_vars

--------------------------------------------------------------------------
(* rewrite_local_links (mod.rs) on the text of one tag *)

\* The URLs of the model.  Not local: one of each kind the code leaves alone,
\* the last a javascript URL that assigns location.href a path in single
\* quotes.  Local: root-relative paths, one with a space in a name, one that
\* goes up a directory, and a path relative to the document.
NonLocalUrls ==
    { <<"http://", "e.com", "/", "a">>,
      <<"https://", "e.com">>,
      <<"/", "/", "cdn", "/", "x.js">>,
      <<"#", "top">>,
      <<"mailto:", "a@b.com">>,
      <<"tel:", "123">>,
      <<"data:", "image/png;base64", ",", "AAAA">>,
      <<"javascript:", "void(0)">>,
      <<"javascript:", "location.", "href=", "'", "/", "home", "'">> }

LocalUrls ==
    { <<"/", "about.html">>,
      <<"/", "blog", "/", "post.html">>,
      <<"/", "blog", "/", "old", "/", "my page.html">>,
      <<"/", "blog", "/", "..", "/", "about.html">>,
      <<"/">>,
      <<"img", "/", "x.png">> }

\* The tag and the attribute a URL of the model stands in: each attribute in
\* a tag its pattern looks in, and an attribute in a tag no pattern looks in.
LinkPlaces ==
    { <<"<a ", "href=">>, <<"<link ", "href=">>, <<"<img ", "src=">>,
      <<"<embed ", "src=">>, <<"<embed ", "data=">>, <<"<object ", "data=">>,
      <<"<video ", "poster=">>, <<"<form ", "action=">>,
      <<"<img ", "srcset=">>, <<"<p ", "href=">> }

\* The text of a tag with one attribute, in quotes of the given kind.
OneTag(place, quote, url) ==
    <<place[1], place[2], quote>> \o url \o <<quote, ">">>

\* The documents that emit the tag: in the root, one and two directories
\* below it.
LinkDocs ==
    { RootPath \o <<"index.html">>,
      RootPath \o <<"blog", "post.html">>,
      RootPath \o <<"blog", "old", "p.html">> }

\* The texts rewrite_local_links is run on: a tag whose attribute value, in
\* quotes of either kind, is a URL that holds no quote of that kind.
LinkInputs ==
    {OneTag(place, quote, url) :
        place \in LinkPlaces, quote \in Quotes,
        url \in {u \in NonLocalUrls \cup LocalUrls :
                    \A i \in 1..Len(u) : u[i] \notin Quotes}}
    \cup {OneTag(place, "\"", url) :
            place \in LinkPlaces, url \in NonLocalUrls \cup LocalUrls}

InitLink ==
    /\ contents \in LinkInputs
    /\ output_path \in LinkDocs
    /\ template = contents
    /\ metadata = NewMetadata(get_page_path(RootPath, output_path))
    /\ reader = <<>>
    /\ reading_metadata = FALSE
    /\ processed_contents = <<>>
    /\ prev = None
    /\ next = None
    /\ tags = <<>>
    /\ files = <<>>
    /\ NoSite
    /\ pc = "links"

\* The call of rewrite_local_links at the end of generate (page.rs:217).
RewriteLinks ==
    /\ pc = "links"
    /\ contents' = rewrite_local_links(contents, output_path, RootPath)
    /\ pc' = "done"
    /\ UNCHANGED <<metadata, metaVars, genVars, files, template, siteVars>>

NextLink == RewriteLinks

SpecLink == InitLink /\ [][NextLink]_vars

--------------------------------------------------------------------------
(* Claims about rewrite_local_links, checked under SpecLink *)

\* The attribute value of the text of one tag.
TagValue(text) == SubSeq(text, 4, Len(text) - 2)

\* C11: a value of an href, src, data, poster or action attribute that
\* begins with http://, https://, //, #, mailto:, tel:, data: or javascript:
\* is the same in the output of rewrite_local_links as in its input.
C11_NonLocalUrlsUnchanged ==
    (/\ pc = "done"
     /\ template[2] \in {"href=", "src=", "data=", "poster=", "action="}
     /\ ~should_rewrite(TagValue(template)))
    => contents = template

\* Percent-decoding of a path segment, as a reader of the URL does it.
DecodeAtom(a) ==
    CASE a = "my%20page.html" -> "my page.html"
      [] a = "my%20tag.html"  -> "my tag.html"
      [] OTHER                -> a

\* The place a relative path denotes from a directory: each ".." leaves a
\* directory, every other segment enters one.
RECURSIVE Resolve(_, _)
Resolve(dir, segs) ==
    IF segs = <<>> THEN dir
    ELSE IF Head(segs) = ".." THEN Resolve(Parent(dir), Tail(segs))
    ELSE Resolve(Append(dir, Head(segs)), Tail(segs))

\* A tag of the model whose attribute one of the patterns rewrites and whose
\* value is a local URL with a leading slash.
RootRelativeLink(text) ==
    /\ text[1] \in LinkTags(text[2])
    /\ should_rewrite(TagValue(text))
    /\ StartsWith(TagValue(text), <<"/">>)
    /\ \A i \in 1..Len(TagValue(text)) : TagValue(text)[i] \notin Quotes

--------------------------------------------------------------------------
(* Claims about the neighbours of a page, checked under Spec *)

\* What a rendered page shows on the line of a mark: the atoms after the
\* mark up to the end of its line.
Shown(page, mark) ==
    LET rest == Drop(page.contents, IndexOf(page.contents, mark))
        stop == IndexOf(rest, NL)
    IN  IF stop = 0 THEN rest ELSE Take(rest, stop - 1)

\* The page was read from a page template, whose body has the three marks.
HasMarks(page) == IndexOf(page.contents, "prev=") > 0

\* C13: a page without a neighbour shows it as absent: the first page of a
\* sorted group has the empty string for { prev.title } and # for
\* { prev.path }, the last page the same for { next.title } and
\* { next.path }, and a page in no group has both absent however many other
\* pages are in no group.
C13_AbsentNeighbourShowsHash ==
    \A key \in DOMAIN groups :
        GroupDone(key) =>
            \A i \in 1..Len(groups[key]) :
                LET page == groups[key][i]
                IN  HasMarks(page) =>
                      /\ (~IsSome(key) \/ i = 1)
                            => Shown(page, "prev=") = <<"#">>
                      /\ (~IsSome(key) \/ i = Len(groups[key]))
                            => /\ Shown(page, "to=") = <<>>
                               /\ Shown(page, "next=") = <<"#">>
                      /\ ~IsSome(page.metadata.group) => ~IsSome(key)

\* A site has been generated in which a group of two pages or more shows a
\* neighbour on the inner side of its first and last page and none on the
\* outer side, and a page in no group shows none.
C13_Witness ==
    /\ pc = "done"
    /\ \E key \in DOMAIN groups :
          /\ IsSome(key)
          /\ Len(groups[key]) >= 2
          /\ Shown(groups[key][1], "prev=") = <<"#">>
          /\ Shown(groups[key][1], "to=") # <<>>
          /\ Shown(groups[key][Len(groups[key])], "next=") = <<"#">>
          /\ Shown(groups[key][Len(groups[key])], "prev=") # <<"#">>
    /\ None \in DOMAIN groups
    /\ \E i \in 1..Len(groups[None]) :
          /\ HasMarks(groups[None][i])
          /\ Shown(groups[None][i], "prev=") = <<"#">>
          /\ Shown(groups[None][i], "next=") = <<"#">>

--------------------------------------------------------------------------
(* Claims about a missing include file, checked under Spec *)

\* The text of the page holds an include directive that names a file which
\* is not there.
HasMissingInclude(page) ==
    \E i \in 1..Len(page.contents) :
        /\ IsInclude(page.contents[i])
        /\ ~IsSome(ReadToString(files,
               get_local_include_path(IncludePathOf(page.contents[i]))))

\* generate has completed on the page.
Rendered(page) == \E n \in 1..Len(rendered) : rendered[n] = page.output_path

\* Every page with a directive that names a missing file is unrendered, and
\* once generate_pages has come to its group the run has panicked and no
\* page from it on in the group, and no page of a group still to come, is
\* rendered.
MissingIncludeIsFatal ==
    \A key \in DOMAIN groups :
        \A i \in 1..Len(groups[key]) :
            HasMissingInclude(groups[key][i]) =>
                /\ ~Rendered(groups[key][i])
                /\ (pc \notin {"read_templates", "process_tags"}
                      /\ key \notin pending)
                   => /\ pc = "panic"
                      /\ \A j \in i..Len(groups[key]) :
                            ~Rendered(groups[key][j])
                      /\ \A other \in pending :
                            \A j \in 1..Len(groups[other]) :
                                ~Rendered(groups[other][j])

\* C14: an include directive in the body of a page that names a missing file
\* makes the rendering of the page end in a panic: the run halts there, the
\* page has no rendered output, and no page after it is rendered.
C14_MissingIncludeHaltsRun ==
    /\ []MissingIncludeIsFatal
    /\ [][pc # "panic"]_vars

\* The run has panicked on a page with a missing include after rendering a
\* page, with a page of the same group still to come.
C14_Witness ==
    /\ pc = "panic"
    /\ rendered # <<>>
    /\ \E key \in DOMAIN groups :
          /\ key \notin pending
          /\ \E i \in 1..(Len(groups[key]) - 1) :
                /\ HasMissingInclude(groups[key][i])
                /\ ~HasMissingInclude(groups[key][i + 1])
                /\ ~Rendered(groups[key][i + 1])

--------------------------------------------------------------------------
(* Claims about the copies of the tags markup, checked under SpecGen *)

\* The body is one { tags '<markup>' } block and text after it.
StartsWithTagsBlock(text) ==
    /\ text # <<>>
    /\ Head(text) = TagsOpen
    /\ Count(text, TagsOpen) = 1
    /\ BlockEnd(text, 1) # 0

\* The markup of the block a body starts with.
TagsMarkup(text) == SubSeq(text, 2, BlockEnd(text, 1) - 1)

\* A copy of the markup that shows one tag: each of its tag.page tokens holds
\* the link, the size and the name of that tag.
CopyFor(markup, name, tagPage, doc) ==
    ReplaceAll(
        ReplaceAll(
            ReplaceAll(markup, "{ tag.page.link }",
                       make_relative_link(tagPage.path, doc, RootPath)),
            "{ tag.page.link_size }", <<ToString(LinkSize(tagPage))>>),
        "{ tag.page.title }", name)

\* One copy for each tag, in the order of the names.
RECURSIVE CopiesFor(_, _, _, _)
CopiesFor(markup, names, tagIndex, doc) ==
    IF names = <<>> THEN <<>>
    ELSE CopyFor(markup, Head(names), tagIndex[Head(names)], doc)
         \o CopiesFor(markup, Tail(names), tagIndex, doc)

\* C15: when the tag cloud has been resolved, the k-th copy of the markup of
\* a { tags } block holds the link, the size and the name of the k-th tag in
\* the order of the names in the place of its { tag.page.link },
\* { tag.page.link_size } and { tag.page.title }: every copy shows one tag
\* and every tag is shown by one copy.
C15_EachCopyShowsOneTag ==
    (pc = "links" /\ StartsWithTagsBlock(template))
    => LET copies == CopiesFor(TagsMarkup(template), SortedTags(tags), tags,
                               output_path)
       IN  Take(contents, Len(copies)) = copies

--------------------------------------------------------------------------
(* Claims about a file that includes itself, checked under SpecInc *)

\* The files the include chain of a text reaches.
Reached(text, fs) == Reach(fs, Refs(text), NumFiles)

\* The file holds an include directive that names the file itself.
IncludesItself(fs, k) == k \in FileRefs(fs, k)

ReachesGrowingSelfInclude(text, fs) ==
    /\ \A k \in Reached(text, fs) : IsSome(ReadToString(fs, k))
    /\ \E k \in Reached(text, fs) :
          /\ IncludesItself(fs, k)
          /\ Len(Unwrap(ReadToString(fs, k))) > 1

--------------------------------------------------------------------------
(* Claims about the order of the steps of generate, checked under SpecGen *)

\* The order of the substitution steps as the claim gives it.
ClaimedOrder ==
    <<"includes", "title", "date", "author", "current_year", "group", "prev",
      "next", "tags", "tag_pages">>

\* The place of a step in the claimed order: the link rewriter comes after
\* them all.
OrderOf(step) ==
    IF step = "links" THEN Len(ClaimedOrder) + 1
    ELSE CHOOSE n \in 1..Len(ClaimedOrder) : ClaimedOrder[n] = step

\* C17: the steps of generate run in the order include expansion, title,
\* date, author, current_year, group, prev, next, tags expansion, per-tag
\* substitution; the link rewriter is called once for a page, after every
\* substitution step, and is the step that completes generate, so that no
\* substitution step runs on text the link rewriter produced.
C17_StepsInOrderLinksLast ==
    [][/\ pc \in {ClaimedOrder[n] : n \in 1..Len(ClaimedOrder)} \cup {"links"}
       /\ \/ pc' = "panic" /\ pc \in {"includes", "group"}
          \/ pc' = pc /\ pc = "includes"
          \/ pc' = "done" /\ pc = "links"
          \/ pc' \notin {"panic", "done"} /\ OrderOf(pc') = OrderOf(pc) + 1
       /\ pc = "links"
            => contents' = rewrite_local_links(contents, output_path, RootPath)
       /\ pc = "tag_pages"
            => contents' = TagPagesStep(contents, SortedTags(tags), tags,
                                        output_path)
       /\ pc = "title"
            => contents' = ReplaceAll(contents, "{ title }", metadata.title)
      ]_vars

\* generate has completed on a page whose link to the previous page came
\* from a placeholder and was in the text when the links were rewritten.
C17_Witness ==
    /\ pc = "done"
    /\ IsSome(prev)
    /\ Count(template, "{ prev.path }") > 0
    /\ Count(contents, "q.html") > 0
    /\ contents = rewrite_local_links(contents, output_path, RootPath)

--------------------------------------------------------------------------
(* Claims about the text of a group file, checked under SpecGen *)

\* The tokens of the steps before the group step, and of the steps after it.
EarlierTokens ==
    {"{ title }", "{ date }", "{ author }", "{ current_year }"} \cup IncludeAtoms

NeighbourTokens ==
    {"{ prev.title }", "{ prev.path }", "{ next.title }", "{ next.path }"}

TagTokens ==
    {"{ tag.page.link }", "{ tag.page.link_size }", "{ tag.page.title }"}

\* The group directives of a text.
GroupCount(text) ==
    Cardinality({i \in 1..Len(text) : text[i] \in GroupAtoms})

\* generate has completed on a page with a group whose body names the group
\* file of the model, and whose title brings no token of its own.
GroupFileInlined ==
    /\ pc = "done"
    /\ IsSome(metadata.group)
    /\ GroupCount(template) > 0
    /\ files[<<FileNames[1]>>] = Some(GroupFileText)
    /\ metadata.title = <<"T">>

\* The tokens of the steps before the group step stand in the output as
\* often as the group file was inlined, no token of a neighbour is left, and
\* no tags block is left.
GroupTextScannedFromGroupStepOn ==
    /\ \A tok \in EarlierTokens :
          Count(contents, tok)
            = GroupCount(template) * Count(GroupFileText, tok)
    /\ \A tok \in NeighbourTokens : Count(contents, tok) = 0
    /\ Count(contents, TagsOpen) = 0

WithGroupFile(text) ==
    Concat([i \in 1..Len(text) |->
              IF text[i] \in GroupAtoms THEN GroupFileText ELSE <<text[i]>>])

--------------------------------------------------------------------------
(* Claims about the keys of the site index, checked under Spec *)

\* C19: at every point of the run, also after process_tags has added the
\* pages of the tags, every page stored in the index under a group key has
\* that key for the group of its metadata, so that the pages generated
\* without neighbours are the pages whose metadata has no group.
C19_PagesStoredUnderOwnGroup ==
    \A key \in DOMAIN groups :
        \A i \in 1..Len(groups[key]) :
            groups[key][i].metadata.group = key

--------------------------------------------------------------------------
(* Claims about the paths of the tag pages, checked under Spec *)

\* The pages of the index with their places: <<key, i>> for the i-th page
\* under the key.
PagePlacesOfIndex ==
    UNION {{<<key, i>> : i \in 1..Len(groups[key])} : key \in DOMAIN groups}

\* C20: after process_tags, two tags of the index never have the same
\* tag-page path, and the page of a tag never has the output path of another
\* page of the run, so that no output overwrites another.
C20_TagPagePathsDistinct ==
    (pc \in {"generate_pages", "done"} /\ IsSome(tag_template))
    => /\ \A n, m \in DOMAIN tags : n # m => tags[n].path # tags[m].path
       /\ \A p, q \in PagePlacesOfIndex :
             (p # q /\ ~RealPage(groups[p[1]][p[2]]))
             => groups[p[1]][p[2]].output_path # groups[q[1]][q[2]].output_path

--------------------------------------------------------------------------
(* Claims about the order of discovery and of iteration, checked under Spec *)

\* The number of the page template of a directory entry.
EntryNo(entry) ==
    CHOOSE n \in 1..Len(PagePlaces) : PagePlaces[n].stem = entry.stem

\* The entries of a site in an order that depends on the set of its entries
\* alone: the page templates by their number, then the other entries.
InOrderOfNumber(entries) ==
    LET pages == SelectSeq(entries, LAMBDA e : e.ext = ".sgpage")
        others == SelectSeq(entries, LAMBDA e : e.ext # ".sgpage")
    IN  [k \in 1..Len(pages) |->
            CHOOSE e \in {pages[i] : i \in 1..Len(pages)} :
                Cardinality({i \in 1..Len(pages) :
                                EntryNo(pages[i]) < EntryNo(e)}) = k - 1]
        \o others

\* read_templates run over a whole walk.
RECURSIVE ReadAll(_, _)
ReadAll(st, entries) ==
    IF entries = <<>> \/ st.pc # "read_templates" THEN st
    ELSE ReadAll(ReadEntry(st, Head(entries), Tail(entries) = <<>>),
                 Tail(entries))

\* The index read_templates and process_tags leave when the entries are
\* visited in the order of their number: [tags, groups, pc].
IndexOfSet(entries) ==
    LET read == ReadAll([tags |-> <<>>, groups |-> <<>>, tag_template |-> None,
                         tag_template_path |-> None, pc |-> "read_templates"],
                        InOrderOfNumber(entries))
        st == [tags |-> read.tags, groups |-> read.groups, pc |-> read.pc]
    IN  IF read.pc = "process_tags" /\ IsSome(read.tag_template)
        THEN ProcessTagsLoop(st, SortedTags(read.tags),
                             Unwrap(read.tag_template),
                             Unwrap(read.tag_template_path))
        ELSE st

\* The pages of a group of that index in the order generate_pages puts them
\* in.
SortedGroupOf(index, key) ==
    LET pages == index.groups[key]
    IN  IF IsSome(key)
        THEN Permute(pages, Unwrap(SortOrder(
                [i \in 1..Len(pages) |-> pages[i].metadata.date], FALSE)))
        ELSE pages

\* The state generate ends in on the page at j of a group of that index.
GenerateOf(index, key, j) ==
    LET pages == SortedGroupOf(index, key)
    IN  Generate([contents |-> pages[j].contents, pc |-> "includes"],
                 pages[j], PrevOf(pages, j, key), NextOf(pages, j, key),
                 index.tags, files)

\* The pages of each group with a name, and the pages carrying each tag,
\* have pairwise distinct dates.
DatesDistinct(index) ==
    /\ \A key \in DOMAIN index.groups :
          IsSome(key) =>
             \A i, j \in 1..Len(index.groups[key]) :
                i # j => index.groups[key][i].metadata.date
                            # index.groups[key][j].metadata.date
    /\ \A name \in DOMAIN index.tags :
          \A i, j \in 1..Len(index.tags[name].meta) :
             (index.tags[name].meta[i].path # index.tags[name].meta[j].path)
             => index.tags[name].meta[i].date # index.tags[name].meta[j].date

==========================================================================
